---- MODULE Spec2Model ----
(***************************************************************************)
(* State machine of the list component of src/list.go: the Model struct,   *)
(* its exported mutators, the Update loop (key messages and                *)
(* FilterMatchesMsg), the detached filterItems commands and the render     *)
(* pass (View -> populatedView -> updateViewportBounds), and the status     *)
(* message with its timers.                                                *)
(*                                                                         *)
(* A Go slice is modelled as a record [elems, cap, isNil]: the elements    *)
(* below len, the capacity of its backing array and whether it is the nil  *)
(* slice.  Cells of the backing array between len and cap are always nil   *)
(* in this program (removeItemFromSlice clears the cell it drops, append   *)
(* allocates zeroed arrays), so they are not stored.                       *)
(***************************************************************************)
EXTENDS Integers, Sequences, FiniteSets, TLC

VARIABLES
    m,      \* the Model value held by the embedding program, with the timers
            \* its statusMessageTimer pointers refer to
    cmds,   \* filterItems commands handed to the runtime, not yet run
    msgs,   \* FilterMatchesMsg values produced by commands, not yet delivered
    view,   \* what the last render pass computed on its copy of the Model
    op,     \* the operation that produced the current state
    panic   \* "" or the run-time panic that ended the program

vars == <<m, cmds, msgs, view, op, panic>>

-----------------------------------------------------------------------------
(* Bounds of the model *)

MaxItems == 2    \* longest master sequence
MaxTerm == 1     \* longest filter term typed into FilterInput
MaxCmds == 1     \* filterItems commands and results in flight together
MaxRace == 2     \* the same, where only the filter engine runs
MaxTimers == 2   \* status messages set, each starting a timer
MaxViewItems == 5    \* longest master sequence where only the viewport moves

(* Program constants *)

DelegateHeight == 1     \* DefaultDelegate.height
DelegateSpacing == 1    \* DefaultDelegate.spacing

-----------------------------------------------------------------------------
(* The values the embedding program works with *)

ItemSet == {"A", "B"}
Nil == "nil"
Runes == {"b"}

\* Item.FilterValue of the items of ItemSet
FilterValue(item) == IF item = "A" THEN <<"a">> ELSE <<"a", "b">>

StatusTexts == {"s1", "s2"}      \* texts given to NewStatusMessage

\* The items of the lists that are only scrolled; the first n make a list
Letters == <<"A", "B", "C", "D", "E", "F", "G", "H">>

Heights == {6}          \* height given to New
Chromes == {2, 4}       \* lines taken by title, status bar and help at a render
ViewHeights == {6, 8}   \* heights given to SetHeight

\* A *time.Timer is the position of the timer in the sequence timers of the
\* timers created so far, NoTimer the nil pointer.  A timer runs until it is
\* stopped or fires; when it fires, the command waiting on it returns a
\* statusMessageTimeoutMsg, which is queued until Update processes it.
NoTimer == 0
Running == "running"
Stopped == "stopped"
Queued == "timeout queued"
Processed == "timeout processed"

Unfiltered == "unfiltered"
Filtering == "filtering"
FilterApplied == "filter applied"

Bindings == {"MoveUp", "MoveDown", "CursorUp", "CursorDown", "GoToStart",
             "GoToEnd", "Filter", "ClearFilter", "CancelWhileFiltering",
             "AcceptWhileFiltering"}

\* The key each binding of the KeyMap is bound to; clear and cancel share esc
BindingKey(b) ==
    CASE b = "MoveUp" -> "shift+up"
      [] b = "MoveDown" -> "shift+down"
      [] b = "CursorUp" -> "up"
      [] b = "CursorDown" -> "down"
      [] b = "GoToStart" -> "home"
      [] b = "GoToEnd" -> "end"
      [] b = "Filter" -> "ctrl+f"
      [] b = "ClearFilter" -> "esc"
      [] b = "CancelWhileFiltering" -> "esc"
      [] b = "AcceptWhileFiltering" -> "enter"

Keys == {BindingKey(b) : b \in Bindings} \cup Runes \cup {"backspace"}

\* The keys that start, edit, accept, cancel or clear a filter
FilterKeys ==
    {BindingKey(b) : b \in {"Filter", "ClearFilter", "CancelWhileFiltering",
                            "AcceptWhileFiltering"}}
        \cup Runes \cup {"backspace"}

SeqsUpTo(S, n) == UNION {[1..k -> S] : k \in 0..n}

-----------------------------------------------------------------------------
(* Helpers of list.go *)

max(a, b) == IF a > b THEN a ELSE b

min(a, b) == IF a < b THEN a ELSE b

setInBounds(x, low, high) == min(high, max(x, low))

\* len(s) of a slice record
len(s) == Len(s.elems)

NilSlice == [elems |-> <<>>, cap |-> 0, isNil |-> TRUE]

\* A slice literal or a fresh slice of the caller: capacity = length
Literal(seq, isNil) ==
    [elems |-> seq, cap |-> Len(seq), isNil |-> isNil /\ seq = <<>>]

\* Capacity of the array the runtime allocates when append outgrows cap c
GrowCap(c) == IF c = 0 THEN 1 ELSE 2 * c

\* append(s, x): in place while len < cap, into a new array otherwise
append(s, x) ==
    IF len(s) < s.cap
    THEN [s EXCEPT !.elems = Append(@, x)]
    ELSE [elems |-> Append(s.elems, x), cap |-> GrowCap(s.cap), isNil |-> FALSE]

RemoveAt(seq, i) == SubSeq(seq, 1, i - 1) \o SubSeq(seq, i + 1, Len(seq))

InsertAt(seq, i, x) == SubSeq(seq, 1, i - 1) \o <<x>> \o SubSeq(seq, i, Len(seq))

\* swapItemsInSlice panics on an empty non-nil slice: setInBounds yields -1
swapItemsInSlicePanics(items, firstIndex, secondIndex) ==
    ~items.isNil /\ len(items) = 0

swapItemsInSlice(items, firstIndex, secondIndex) ==
    IF items.isNil THEN items
    ELSE LET maxIndex == len(items) - 1
             i == setInBounds(firstIndex, 0, maxIndex) + 1
             j == setInBounds(secondIndex, 0, maxIndex) + 1
         IN  [items EXCEPT !.elems = [@ EXCEPT ![i] = items.elems[j],
                                               ![j] = items.elems[i]]]

\* copy(s[to:], s[from:]) on the cells of one array, to and from 0-based:
\* min(len - to, len - from) cells move, as if through a temporary
copyWithin(seq, to, from) ==
    LET n == min(Len(seq) - to, Len(seq) - from)
    IN  [k \in 1..Len(seq) |->
            IF k > to /\ k <= to + n THEN seq[k - to + from] ELSE seq[k]]

\* insertItemIntoSlice that appends whatever the index
insertItemIntoSlice_Appends(items, item, index) ==
    IF items.isNil THEN [elems |-> <<item>>, cap |-> 1, isNil |-> FALSE]
    ELSE append(items, item)

insertItemIntoSlice(items, item, index) ==
    IF items.isNil THEN [elems |-> <<item>>, cap |-> 1, isNil |-> FALSE]
    ELSE IF index >= len(items) THEN append(items, item)
    ELSE LET i == max(0, index)
             grown == append(items, Nil)
             shifted == copyWithin(grown.elems, i + 1, i)
         IN  [grown EXCEPT !.elems = [shifted EXCEPT ![i + 1] = item]]

\* i[index:] with a negative index is a run-time panic
removeItemFromSlicePanics(i, index) == index < len(i) /\ index < 0

\* removeItemFromSlice that drops the last cell without moving the suffix
removeItemFromSlice_DropsLast(i, index) ==
    IF index >= len(i) THEN i
    ELSE [i EXCEPT !.elems = SubSeq(@, 1, Len(@) - 1)]

removeItemFromSlice(i, index) ==
    IF index >= len(i) THEN i
    ELSE LET shifted == copyWithin(i.elems, index, index + 1)
             cleared == [shifted EXCEPT ![Len(shifted)] = Nil]
         IN  [i EXCEPT !.elems = SubSeq(cleared, 1, Len(cleared) - 1)]

removeFilterMatchFromSlice(i, index) ==
    IF index >= Len(i) THEN i
    ELSE SubSeq(copyWithin(i, index, index + 1), 1, Len(i) - 1)

-----------------------------------------------------------------------------
(* Methods of Model that read or change the Model value mm *)

\* filteredItems.items()
FilteredAsItems(f) == [k \in 1..Len(f) |-> f[k].item]

AvailableItems(mm) ==
    IF mm.filterState # Unfiltered
    THEN FilteredAsItems(mm.filteredItems)
    ELSE mm.items.elems

Index(mm) == mm.index

SelectedItem(mm) ==
    LET i == Index(mm)
        items == AvailableItems(mm)
    IN  IF i < 0 \/ Len(items) = 0 \/ Len(items) <= i THEN Nil ELSE items[i + 1]

\* cap() of the slice AvailableItems returns: items() makes a slice of cap = len
AvailableCap(mm) ==
    IF mm.filterState # Unfiltered THEN Len(mm.filteredItems) ELSE mm.items.cap

itemsAsFilterItems(elems) ==
    [k \in 1..Len(elems) |-> [item |-> elems[k], matches |-> <<>>]]

updateKeybindings(mm) ==
    IF mm.filterState = Filtering
    THEN [mm EXCEPT !.KeyMap =
            [b \in Bindings |->
                CASE b = "CancelWhileFiltering" -> TRUE
                  [] b = "AcceptWhileFiltering" -> mm.FilterInput # <<>>
                  [] OTHER -> FALSE]]
    ELSE LET hasItems == len(mm.items) # 0
         IN  [mm EXCEPT !.KeyMap =
                [b \in Bindings |->
                    CASE b = "Filter" -> mm.filteringEnabled /\ hasItems
                      [] b = "ClearFilter" -> mm.filterState = FilterApplied
                      [] b = "CancelWhileFiltering" -> FALSE
                      [] b = "AcceptWhileFiltering" -> FALSE
                      [] OTHER -> hasItems]]

\* resetFiltering without the line that drops the filtered items
resetFiltering_KeepsFiltered(mm) ==
    IF mm.filterState = Unfiltered THEN mm
    ELSE updateKeybindings([mm EXCEPT !.filterState = Unfiltered,
                                      !.FilterInput = <<>>])

resetFiltering(mm) ==
    IF mm.filterState = Unfiltered THEN mm
    ELSE updateKeybindings([mm EXCEPT !.filterState = Unfiltered,
                                      !.FilterInput = <<>>,
                                      !.filteredItems = <<>>])

\* Select without the clamp to the last position
Select_NoUpperClamp(mm, index) ==
    LET size == Len(AvailableItems(mm))
    IN  IF size = 0 THEN [mm EXCEPT !.index = -1]
        ELSE IF index < 0 THEN [mm EXCEPT !.index = 0]
        ELSE [mm EXCEPT !.index = index]

\* Timer.Stop: a timer that has not fired will not fire; one that has fired is
\* not affected
Stop(ts, t) ==
    IF t = NoTimer THEN ts
    ELSE [ts EXCEPT ![t] = IF @ = Running THEN Stopped ELSE @]

hideStatusMessage(mm) ==
    [mm EXCEPT !.statusMessage = "",
               !.timers = Stop(@, mm.statusMessageTimer)]

\* The command returned waits on the new timer
NewStatusMessage(mm, s) ==
    [mm EXCEPT !.statusMessage = s,
               !.timers = Append(Stop(@, mm.statusMessageTimer), Running),
               !.statusMessageTimer = Len(mm.timers) + 1]

Select(mm, index) ==
    LET size == Len(AvailableItems(mm))
    IN  IF size = 0 THEN [mm EXCEPT !.index = -1]
        ELSE IF index < 0 THEN [mm EXCEPT !.index = 0]
        ELSE IF index > size - 1 THEN [mm EXCEPT !.index = size - 1]
        ELSE [mm EXCEPT !.index = index]

ResetSelected(mm) == Select(mm, 0)

CursorUp(mm) == Select(mm, mm.index - 1)

CursorDown(mm) == Select(mm, mm.index + 1)

\* key.Matches(msg, binding): the key is the binding's and the binding is enabled
Matches(mm, k, b) == mm.KeyMap[b] /\ k = BindingKey(b)

-----------------------------------------------------------------------------
(* New *)

New(its, height) ==
    updateKeybindings(
        [items |-> its,
         filteredItems |-> <<>>,
         index |-> IF len(its) > 0 THEN 0 ELSE -1,
         firstItemIndexInView |-> 0,
         lastItemIndexInView |-> 0,
         filterState |-> Unfiltered,
         FilterInput |-> <<>>,
         filteringEnabled |-> TRUE,
         height |-> height,
         KeyMap |-> [b \in Bindings |-> TRUE],
         statusMessage |-> "",
         statusMessageTimer |-> NoTimer,
         timers |-> <<>>])

NoView == [done |-> FALSE]

\* The records kept in op: the operation; with the key of a key message; with
\* the index argument of an operation that takes one; with its item argument
Op(name) == [name |-> name]

OpKey(k) == [name |-> "Update", key |-> k]

OpAt(name, index) == [name |-> name, index |-> index]

OpItem(name, index, item) == [name |-> name, index |-> index, item |-> item]

Init ==
    /\ \E seq \in SeqsUpTo(ItemSet, MaxItems), isNil \in BOOLEAN, h \in Heights :
          m = New(Literal(seq, isNil), h)
    /\ cmds = <<>>
    /\ msgs = <<>>
    /\ view = NoView
    /\ op = Op("New")
    /\ panic = ""

-----------------------------------------------------------------------------
(* Ranking: the Filter function installed in the Model *)

\* Leftmost match of term as a subsequence of key, from position from (1-based);
\* idx holds the matched rune indices of key (0-based)
RECURSIVE fuzzyMatch(_, _, _)
fuzzyMatch(term, key, from) ==
    IF term = <<>> THEN [ok |-> TRUE, idx |-> <<>>]
    ELSE IF from > Len(key) THEN [ok |-> FALSE, idx |-> <<>>]
    ELSE IF key[from] = Head(term)
         THEN LET r == fuzzyMatch(Tail(term), key, from + 1)
              IN  [ok |-> r.ok, idx |-> <<from - 1>> \o r.idx]
         ELSE fuzzyMatch(term, key, from + 1)

\* UnsortedFilter: the ranks of the matching targets, in input order
Filter(term, targets) ==
    LET positions == [k \in 1..Len(targets) |-> k]
        hit(k) == fuzzyMatch(term, targets[k], 1).ok
        matched == SelectSeq(positions, hit)
    IN  [j \in 1..Len(matched) |->
            [Index |-> matched[j] - 1,
             MatchedIndexes |-> fuzzyMatch(term, targets[matched[j]], 1).idx]]

-----------------------------------------------------------------------------
(* filterItems: the command closes over a copy of the Model.  The copy's    *)
(* items slice has the length it had at dispatch and shares the backing     *)
(* array of the master slice until the master slice is given another array. *)

filterItems(mm) ==
    [term |-> mm.FilterInput,
     filterState |-> mm.filterState,
     len |-> len(mm.items),
     shared |-> len(mm.items) > 0,
     snap |-> <<>>]

\* What the command's items slice holds while the master slice is its
CmdItems(c, its) ==
    IF c.shared
    THEN [k \in 1..c.len |-> IF k <= len(its) THEN its.elems[k] ELSE Nil]
    ELSE c.snap

\* The master slice moves to another array: commands keep the old one
Unshare(cs, its) ==
    [k \in 1..Len(cs) |->
        IF cs[k].shared
        THEN [cs[k] EXCEPT !.shared = FALSE, !.snap = CmdItems(cs[k], its)]
        ELSE cs[k]]

\* The command calls FilterValue on every item unless it returns early
filterItemsPanics(c, its) ==
    /\ ~(c.term = <<>> \/ c.filterState = Unfiltered)
    /\ \E k \in 1..c.len : CmdItems(c, its)[k] = Nil

\* The FilterMatchesMsg the command returns when it runs
filterItemsRun(c, its) ==
    LET items == CmdItems(c, its)
    IN  IF c.term = <<>> \/ c.filterState = Unfiltered
        THEN itemsAsFilterItems(items)
        ELSE LET targets == [k \in 1..Len(items) |-> FilterValue(items[k])]
                 ranks == Filter(c.term, targets)
             IN  [j \in 1..Len(ranks) |->
                    [item |-> items[ranks[j].Index + 1],
                     matches |-> ranks[j].MatchedIndexes]]

-----------------------------------------------------------------------------
(* Exported mutators, as functions of the Model value.  Those that return a *)
(* command yield [m, cmd], cmd the sequence of commands returned.           *)

Dispatch(mm) == IF mm.filterState # Unfiltered THEN <<filterItems(mm)>> ELSE <<>>

SetItems(mm, i) ==
    LET a == [mm EXCEPT !.items = i]
        b == IF mm.filterState # Unfiltered
             THEN [a EXCEPT !.filteredItems = <<>>] ELSE a
    IN  [m |-> updateKeybindings(b), cmd |-> Dispatch(b)]

SetItemPanics(mm, index) == index < 0 \/ index >= len(mm.items)

\* SetItem that, like the moves, does nothing unless Unfiltered
SetItem_WhileUnfiltered(mm, index, item) ==
    IF mm.filterState = Unfiltered
    THEN [m |-> [mm EXCEPT !.items.elems[index + 1] = item], cmd |-> <<>>]
    ELSE [m |-> mm, cmd |-> <<>>]

SetItem(mm, index, item) ==
    LET a == [mm EXCEPT !.items.elems[index + 1] = item]
    IN  [m |-> a, cmd |-> Dispatch(a)]

\* MoveItemUp without the guard on the filter state
MoveItemUp_Unguarded(mm, index) ==
    IF swapItemsInSlicePanics(mm.items, index, index - 1) THEN mm
    ELSE CursorUp([mm EXCEPT !.items = swapItemsInSlice(@, index, index - 1)])

\* MoveItemUp that swaps the items and leaves the cursor where it is
MoveItemUp_KeepsCursor(mm, index) ==
    IF mm.filterState = Unfiltered
    THEN [mm EXCEPT !.items = swapItemsInSlice(@, index, index - 1)]
    ELSE mm

MoveItemUp(mm, index) ==
    IF mm.filterState = Unfiltered
    THEN CursorUp([mm EXCEPT !.items = swapItemsInSlice(@, index, index - 1)])
    ELSE mm

MoveItemDown(mm, index) ==
    IF mm.filterState = Unfiltered
    THEN CursorDown([mm EXCEPT !.items = swapItemsInSlice(@, index, index + 1)])
    ELSE mm

MoveItemPanics(mm, index) ==
    mm.filterState = Unfiltered /\ swapItemsInSlicePanics(mm.items, index, index)

InsertItem(mm, index, item) ==
    LET a == [mm EXCEPT !.items = insertItemIntoSlice(@, item, index)]
    IN  [m |-> updateKeybindings(a), cmd |-> Dispatch(a)]

RemoveItem(mm, index) ==
    LET a == [mm EXCEPT !.items = removeItemFromSlice(@, index)]
    IN  IF a.filterState # Unfiltered
        THEN LET b == [a EXCEPT !.filteredItems =
                                    removeFilterMatchFromSlice(@, index)]
             IN  IF Len(b.filteredItems) = 0 THEN resetFiltering(b) ELSE b
        ELSE a

SetFilteringEnabled(mm, v) ==
    LET a == [mm EXCEPT !.filteringEnabled = v]
    IN  updateKeybindings(IF ~v THEN resetFiltering(a) ELSE a)

-----------------------------------------------------------------------------
(* The Update loop for a key message k *)

\* textinput.Model.Update: a rune is appended, backspace drops the last rune
FilterInputUpdate(value, k) ==
    IF k \in Runes THEN Append(value, k)
    ELSE IF k = "backspace" /\ value # <<>> THEN SubSeq(value, 1, Len(value) - 1)
    ELSE value

handleBrowsing(mm, k) ==
    IF Matches(mm, k, "ClearFilter") THEN resetFiltering(mm)
    ELSE IF Matches(mm, k, "CursorUp") THEN CursorUp(mm)
    ELSE IF Matches(mm, k, "CursorDown") THEN CursorDown(mm)
    ELSE IF Matches(mm, k, "GoToStart") THEN ResetSelected(mm)
    ELSE IF Matches(mm, k, "GoToEnd") THEN Select(mm, len(mm.items))
    ELSE IF Matches(mm, k, "Filter")
         THEN LET h == hideStatusMessage(mm)
                  a == IF h.FilterInput = <<>>
                       THEN [h EXCEPT !.filteredItems =
                                          itemsAsFilterItems(h.items.elems)]
                       ELSE h
                  b == ResetSelected(a)
              IN  updateKeybindings([b EXCEPT !.filterState = Filtering])
    ELSE mm

handleMoving(mm, k) ==
    IF Matches(mm, k, "MoveUp") THEN MoveItemUp(mm, mm.index)
    ELSE IF Matches(mm, k, "MoveDown") THEN MoveItemDown(mm, mm.index)
    ELSE mm

handleMovingPanics(mm, k) ==
    /\ Matches(mm, k, "MoveUp") \/ Matches(mm, k, "MoveDown")
    /\ MoveItemPanics(mm, mm.index)

\* The key switch of handleFiltering without the "filtered down to nothing" test
handleFilteringKeys_AcceptsEmpty(mm, k) ==
    IF Matches(mm, k, "CancelWhileFiltering")
    THEN [resetFiltering(mm) EXCEPT !.KeyMap["Filter"] = TRUE,
                                    !.KeyMap["ClearFilter"] = FALSE]
    ELSE IF Matches(mm, k, "AcceptWhileFiltering")
    THEN LET h == hideStatusMessage(mm)
         IN  IF len(h.items) = 0 THEN h
             ELSE LET a == updateKeybindings(
                               [h EXCEPT !.filterState = FilterApplied])
                  IN  IF a.FilterInput = <<>> THEN resetFiltering(a) ELSE a
    ELSE mm

\* The key switch of handleFiltering with a case that moves the cursor down
handleFilteringKeys_MovesCursor(mm, k) ==
    IF k = BindingKey("CursorDown") THEN CursorDown(mm)
    ELSE IF Matches(mm, k, "CancelWhileFiltering")
    THEN [resetFiltering(mm) EXCEPT !.KeyMap["Filter"] = TRUE,
                                    !.KeyMap["ClearFilter"] = FALSE]
    ELSE mm

\* The key switch of handleFiltering
handleFilteringKeys(mm, k) ==
    IF Matches(mm, k, "CancelWhileFiltering")
    THEN [resetFiltering(mm) EXCEPT !.KeyMap["Filter"] = TRUE,
                                    !.KeyMap["ClearFilter"] = FALSE]
    ELSE IF Matches(mm, k, "AcceptWhileFiltering")
    THEN LET h == hideStatusMessage(mm)
         IN  IF len(h.items) = 0 THEN h
             ELSE IF Len(AvailableItems(h)) = 0 THEN resetFiltering(h)
             ELSE LET a == updateKeybindings(
                               [h EXCEPT !.filterState = FilterApplied])
                  IN  IF a.FilterInput = <<>> THEN resetFiltering(a) ELSE a
    ELSE mm

handleFiltering(mm, k) ==
    LET a == handleFilteringKeys(mm, k)
        newValue == FilterInputUpdate(a.FilterInput, k)
        filterChanged == a.FilterInput # newValue
        b == [a EXCEPT !.FilterInput = newValue]
    IN  IF filterChanged
        THEN [m |-> [b EXCEPT !.KeyMap["AcceptWhileFiltering"] = newValue # <<>>],
              cmd |-> <<filterItems(b)>>]
        ELSE [m |-> b, cmd |-> <<>>]

\* Update(FilterMatchesMsg) that drops a result delivered while Unfiltered
UpdateFilterMatches_WhileFiltering(mm, msg) ==
    IF mm.filterState = Unfiltered THEN mm
    ELSE [mm EXCEPT !.filteredItems = msg]

\* Update(FilterMatchesMsg) that applies a result only when it ranks the
\* master sequence for the query now in FilterInput
UpdateFilterMatches_ForQuery(mm, msg) ==
    IF msg = filterItemsRun(filterItems(mm), mm.items)
    THEN [mm EXCEPT !.filteredItems = msg]
    ELSE mm

\* The FilterMatchesMsg case of Update
UpdateFilterMatches(mm, msg) == [mm EXCEPT !.filteredItems = msg]

-----------------------------------------------------------------------------
(* The render pass *)

\* Go's integer division truncates toward zero
GoDiv(a, b) == IF a >= 0 THEN a \div b ELSE -((-a) \div b)

availSpaceOf(mm, chrome) ==
    max(1, GoDiv(mm.height - chrome, DelegateHeight + DelegateSpacing))

\* updateViewportBounds that scrolls down until the selection is the first
\* item shown
updateViewportBounds_ScrollsToTop(mm, chrome) ==
    LET index == mm.index
        availSpace == availSpaceOf(mm, chrome)
        requiredSpace == Len(AvailableItems(mm))
        currentFirst == mm.firstItemIndexInView
        currentLast == min(requiredSpace, currentFirst + availSpace) - 1
    IN  IF index < 0
        THEN [mm EXCEPT !.firstItemIndexInView = 0, !.lastItemIndexInView = 0]
        ELSE IF currentFirst <= index /\ index <= currentLast
        THEN [mm EXCEPT !.lastItemIndexInView = currentLast]
        ELSE [mm EXCEPT !.firstItemIndexInView = index,
                        !.lastItemIndexInView =
                            index + min(requiredSpace, availSpace) - 1]

updateViewportBounds(mm, chrome) ==
    LET index == mm.index
        availSpace == availSpaceOf(mm, chrome)
        requiredSpace == Len(AvailableItems(mm))
        currentFirst == mm.firstItemIndexInView
        currentLast == min(requiredSpace, currentFirst + availSpace) - 1
    IN  IF index < 0
        THEN [mm EXCEPT !.firstItemIndexInView = 0, !.lastItemIndexInView = 0]
        ELSE IF currentFirst <= index /\ index <= currentLast
        THEN [mm EXCEPT !.lastItemIndexInView = currentLast]
        ELSE IF currentLast < index
        THEN [mm EXCEPT !.firstItemIndexInView = max(0, index - availSpace + 1),
                        !.lastItemIndexInView = index]
        ELSE IF currentFirst > index
        THEN [mm EXCEPT !.firstItemIndexInView = index,
                        !.lastItemIndexInView =
                            index + min(requiredSpace, availSpace) - 1]
        ELSE mm

\* populatedView slices items[first : last+1] of a non-empty available slice
populatedViewPanics(mm) ==
    /\ Len(AvailableItems(mm)) > 0
    /\ ~(/\ 0 <= mm.firstItemIndexInView
         /\ mm.firstItemIndexInView <= mm.lastItemIndexInView + 1
         /\ mm.lastItemIndexInView + 1 <= AvailableCap(mm))

-----------------------------------------------------------------------------
(* Actions *)

InFlight == Len(cmds) + Len(msgs)

\* The operation ends normally with Model value new, having returned the
\* commands cmd; realloc tells that the master slice got another backing array
DoneWithin(bound, o, new, cmd, realloc) ==
    /\ InFlight + Len(cmd) <= bound
    /\ m' = new
    /\ cmds' = (IF realloc THEN Unshare(cmds, m.items) ELSE cmds) \o cmd
    /\ op' = o
    /\ panic' = ""
    /\ view' = NoView
    /\ UNCHANGED msgs

Done(o, new, cmd, realloc) == DoneWithin(MaxCmds, o, new, cmd, realloc)

\* The operation ends the program with a run-time panic
Panics(o, what) ==
    /\ panic' = what
    /\ op' = o
    /\ view' = NoView
    /\ UNCHANGED <<m, cmds, msgs>>

DoSetItems ==
    /\ panic = ""
    /\ \E seq \in SeqsUpTo(ItemSet, MaxItems), isNil \in BOOLEAN :
          LET r == SetItems(m, Literal(seq, isNil))
          IN  Done(Op("SetItems"), r.m, r.cmd, TRUE)

DoSetItem ==
    /\ panic = ""
    /\ \E index \in -1..MaxItems, item \in ItemSet :
          IF SetItemPanics(m, index)
          THEN Panics(OpAt("SetItem", index), "index out of range")
          ELSE LET r == SetItem(m, index, item)
               IN  Done(OpItem("SetItem", index, item), r.m, r.cmd, FALSE)

DoInsertItem ==
    /\ panic = ""
    /\ len(m.items) < MaxItems
    /\ \E index \in -1..MaxItems + 1, item \in ItemSet :
          LET r == InsertItem(m, index, item)
          IN  Done(OpItem("InsertItem", index, item), r.m, r.cmd,
                   r.m.items.cap # m.items.cap)

DoRemoveItem ==
    /\ panic = ""
    /\ \E index \in -1..MaxItems :
          IF removeItemFromSlicePanics(m.items, index)
          THEN Panics(OpAt("RemoveItem", index), "slice bounds out of range")
          ELSE Done(OpAt("RemoveItem", index), RemoveItem(m, index), <<>>, FALSE)

DoMoveItemUp ==
    /\ panic = ""
    /\ \E index \in -1..MaxItems :
          IF MoveItemPanics(m, index)
          THEN Panics(OpAt("MoveItemUp", index), "index out of range")
          ELSE Done(OpAt("MoveItemUp", index), MoveItemUp(m, index), <<>>, FALSE)

DoMoveItemDown ==
    /\ panic = ""
    /\ \E index \in -1..MaxItems :
          IF MoveItemPanics(m, index)
          THEN Panics(OpAt("MoveItemDown", index), "index out of range")
          ELSE Done(OpAt("MoveItemDown", index), MoveItemDown(m, index), <<>>, FALSE)

DoSelect ==
    /\ panic = ""
    /\ \E index \in -1..MaxItems :
          Done(OpAt("Select", index), Select(m, index), <<>>, FALSE)

DoCursorUp ==
    /\ panic = ""
    /\ Done(Op("CursorUp"), CursorUp(m), <<>>, FALSE)

DoCursorDown ==
    /\ panic = ""
    /\ Done(Op("CursorDown"), CursorDown(m), <<>>, FALSE)

DoResetSelected ==
    /\ panic = ""
    /\ Done(Op("ResetSelected"), ResetSelected(m), <<>>, FALSE)

DoResetFilter ==
    /\ panic = ""
    /\ Done(Op("ResetFilter"), resetFiltering(m), <<>>, FALSE)

DoSetFilteringEnabled ==
    /\ panic = ""
    /\ \E v \in BOOLEAN :
          Done(Op("SetFilteringEnabled"),
               SetFilteringEnabled(m, v), <<>>, FALSE)

\* The messages each handler passes to m.delegate.Update, in order
handleBrowsingForwards(mm, k) == <<k>>

handleMovingForwards(mm, k) == IF handleMovingPanics(mm, k) THEN <<>> ELSE <<k>>

handleFilteringForwards(mm, k) == <<>>

\* The messages Update(tea.KeyMsg) passes to m.delegate.Update
UpdateForwards(mm, k) ==
    IF mm.filterState = Filtering
    THEN handleFilteringForwards(mm, k)
    ELSE handleBrowsingForwards(mm, k)
             \o handleMovingForwards(handleBrowsing(mm, k), k)

\* Update(tea.KeyMsg) for a key of keys, with at most bound commands and
\* results in flight
KeyMsg(bound, keys) ==
    /\ panic = ""
    /\ \E k \in keys :
          IF m.filterState = Filtering
          THEN /\ k \in Runes => Len(m.FilterInput) < MaxTerm
               /\ LET r == handleFiltering(m, k)
                  IN  DoneWithin(bound, OpKey(k), r.m, r.cmd, FALSE)
          ELSE LET a == handleBrowsing(m, k)
               IN  IF handleMovingPanics(a, k)
                   THEN Panics(OpKey(k), "index out of range")
                   ELSE DoneWithin(bound, OpKey(k), handleMoving(a, k),
                                   <<>>, FALSE)

UpdateKeyMsg == KeyMsg(MaxCmds, Keys)

UpdateFilterKeyMsg == KeyMsg(MaxCmds, FilterKeys)

\* Update(FilterMatchesMsg): any result in flight may arrive next
UpdateFilterMatchesMsg ==
    /\ panic = ""
    /\ \E j \in 1..Len(msgs) :
          /\ m' = UpdateFilterMatches(m, msgs[j])
          /\ msgs' = RemoveAt(msgs, j)
          /\ op' = Op("FilterMatchesMsg")
          /\ panic' = ""
          /\ view' = NoView
          /\ UNCHANGED cmds

\* The runtime runs a filterItems command in its own goroutine
RunCmd ==
    /\ panic = ""
    /\ \E j \in 1..Len(cmds) :
          /\ cmds' = RemoveAt(cmds, j)
          /\ op' = Op("filterItems")
          /\ view' = NoView
          /\ UNCHANGED m
          /\ IF filterItemsPanics(cmds[j], m.items)
             THEN panic' = "nil pointer dereference" /\ UNCHANGED msgs
             ELSE /\ panic' = ""
                  /\ msgs' = Append(msgs, filterItemsRun(cmds[j], m.items))

\* View: the bounds are computed on View's copy of the Model
DoView ==
    /\ panic = ""
    /\ \E chrome \in Chromes :
          LET c == updateViewportBounds(m, chrome)
          IN  /\ view' = [done |-> TRUE,
                          first |-> c.firstItemIndexInView,
                          last |-> c.lastItemIndexInView,
                          availSpace |-> availSpaceOf(m, chrome),
                          size |-> Len(AvailableItems(m))]
              /\ op' = Op("View")
              /\ panic' = IF populatedViewPanics(c)
                          THEN "slice bounds out of range" ELSE ""
              /\ UNCHANGED <<m, cmds, msgs>>

\* The step of Update for a message that is no key message, after the type
\* switch: the handlers forward it and change nothing in the Model
UpdateOther(mm) == mm

DoNewStatusMessage ==
    /\ panic = ""
    /\ Len(m.timers) < MaxTimers
    /\ \E s \in StatusTexts :
          Done([name |-> "NewStatusMessage", timer |-> Len(m.timers) + 1],
               NewStatusMessage(m, s), <<>>, FALSE)

\* A running timer fires: the command waiting on it returns its
\* statusMessageTimeoutMsg to the runtime
TimerFires ==
    /\ panic = ""
    /\ \E t \in 1..Len(m.timers) :
          /\ m.timers[t] = Running
          /\ Done([name |-> "timer", timer |-> t],
                  [m EXCEPT !.timers[t] = Queued], <<>>, FALSE)

\* Update(statusMessageTimeoutMsg): any queued timeout may arrive next
UpdateStatusMessageTimeoutMsg ==
    /\ panic = ""
    /\ \E t \in 1..Len(m.timers) :
          /\ m.timers[t] = Queued
          /\ Done([name |-> "statusMessageTimeoutMsg", timer |-> t],
                  UpdateOther(hideStatusMessage(
                      [m EXCEPT !.timers[t] = Processed])),
                  <<>>, FALSE)

Next ==
    \/ DoSetItems
    \/ DoSetItem
    \/ DoInsertItem
    \/ DoRemoveItem
    \/ DoMoveItemUp
    \/ DoMoveItemDown
    \/ DoSelect
    \/ DoCursorUp
    \/ DoCursorDown
    \/ DoResetSelected
    \/ DoResetFilter
    \/ DoSetFilteringEnabled
    \/ UpdateKeyMsg
    \/ UpdateFilterMatchesMsg
    \/ RunCmd
    \/ DoView

Spec == Init /\ [][Next]_vars

\* The item store alone: New, then any sequence of InsertItem and RemoveItem,
\* with render passes in between
NextInsertRemove ==
    \/ DoInsertItem
    \/ DoRemoveItem
    \/ DoView

SpecInsertRemove == Init /\ [][NextInsertRemove]_vars

\* The exported mutators of the master sequence, on a list that is never
\* filtered
NextStore ==
    \/ DoSetItem
    \/ DoInsertItem
    \/ DoRemoveItem
    \/ DoMoveItemUp
    \/ DoMoveItemDown

SpecStore == Init /\ [][NextStore]_vars

\* The filter engine alone: key messages, the commands they dispatch and the
\* results delivered, with up to MaxRace requests and results in flight
UpdateKeyMsgRace == KeyMsg(MaxRace, FilterKeys)

NextRace ==
    \/ UpdateKeyMsgRace
    \/ RunCmd
    \/ UpdateFilterMatchesMsg

SpecRace == Init /\ [][NextRace]_vars

\* Status messages, their timers, and the filter keys with their ranking
NextStatus ==
    \/ DoNewStatusMessage
    \/ TimerFires
    \/ UpdateStatusMessageTimeoutMsg
    \/ UpdateFilterKeyMsg
    \/ RunCmd
    \/ UpdateFilterMatchesMsg

SpecStatus == Init /\ [][NextStatus]_vars

\* setSize: of the fields it sets only the height is modelled
setSize(mm, height) == [mm EXCEPT !.height = height]

SetHeight(mm, v) == setSize(mm, v)

DoSetHeight ==
    /\ panic = ""
    /\ \E v \in ViewHeights :
          Done([name |-> "SetHeight", height |-> v], SetHeight(m, v), <<>>, FALSE)

\* A list of up to MaxViewItems items that is never filtered nor changed: the
\* selection moves and the list is rendered
InitViewport ==
    /\ \E n \in 0..MaxViewItems, h \in Heights :
          m = New(Literal(SubSeq(Letters, 1, n), FALSE), h)
    /\ cmds = <<>>
    /\ msgs = <<>>
    /\ view = NoView
    /\ op = Op("New")
    /\ panic = ""

NextViewport ==
    \/ DoSetHeight
    \/ DoSelect
    \/ DoCursorUp
    \/ DoCursorDown
    \/ DoResetSelected
    \/ DoView

SpecViewport == InitViewport /\ [][NextViewport]_vars

\* updateViewportBounds called on the Model itself, as code of the package can
\* call it, for every window start
DoUpdateViewportBounds ==
    /\ panic = ""
    /\ \E chrome \in Chromes :
          Done([name |-> "updateViewportBounds",
                availSpace |-> availSpaceOf(m, chrome)],
               updateViewportBounds(m, chrome), <<>>, FALSE)

\* The arguments of updateViewportBounds: a list of n items, a selected index
\* in it and any window start
InitBounds ==
    /\ \E n \in 0..MaxViewItems, h \in Heights :
          \E index \in 0..max(0, n - 1), first \in 0..MaxViewItems :
              m = [New(Literal(SubSeq(Letters, 1, n), FALSE), h)
                      EXCEPT !.index = index, !.firstItemIndexInView = first]
    /\ cmds = <<>>
    /\ msgs = <<>>
    /\ view = NoView
    /\ op = Op("New")
    /\ panic = ""

NextBounds ==
    \/ DoUpdateViewportBounds
    \/ DoSetHeight

SpecBounds == InitBounds /\ [][NextBounds]_vars

\* Every key message, the commands dispatched and the results delivered
NextKeys ==
    \/ UpdateKeyMsg
    \/ RunCmd
    \/ UpdateFilterMatchesMsg

SpecKeys == Init /\ [][NextKeys]_vars

\* The filter keys and ranking together with SetItem
NextSetItem ==
    \/ UpdateFilterKeyMsg
    \/ RunCmd
    \/ UpdateFilterMatchesMsg
    \/ DoSetItem

SpecSetItem == Init /\ [][NextSetItem]_vars

\* The keys that move the selection and the selected item
MoveKeys == {BindingKey(b) : b \in {"MoveUp", "MoveDown", "CursorUp", "CursorDown"}}

UpdateMoveKeyMsg == KeyMsg(MaxCmds, MoveKeys)

\* A list of up to MaxViewItems different items and the keys that move the
\* selection and the selected item in it
NextMove ==
    \/ UpdateMoveKeyMsg

SpecMove == InitViewport /\ [][NextMove]_vars

\* The filter keys and ranking together with RemoveItem
NextRemove ==
    \/ UpdateFilterKeyMsg
    \/ RunCmd
    \/ UpdateFilterMatchesMsg
    \/ DoRemoveItem

SpecRemove == Init /\ [][NextRemove]_vars

\* Key messages and ranking together with the calls that move the selection
NextSelect ==
    \/ UpdateKeyMsg
    \/ RunCmd
    \/ UpdateFilterMatchesMsg
    \/ DoSelect
    \/ DoCursorUp
    \/ DoCursorDown
    \/ DoResetSelected

SpecSelect == Init /\ [][NextSelect]_vars

-----------------------------------------------------------------------------
(* Claims *)

size == Len(AvailableItems(m))

\* C1: after every operation of any sequence of InsertItem and RemoveItem calls
\* the selected index lies in [-1, len(available) - 1]
C1_IndexInRange == m.index >= -1 /\ m.index <= size - 1

\* C2: in every reachable state the selected index is -1 if and only if the
\* available sequence is empty
C2_NoSelectionIffEmpty == (m.index = -1) <=> (size = 0)

\* C3: after every viewport reconciliation with a non-empty available sequence,
\* first <= selected index <= last and last - first + 1 <= capacity
C3_ViewportInvariant ==
    (view.done /\ view.size > 0) =>
        /\ view.first <= m.index
        /\ m.index <= view.last
        /\ view.last - view.first + 1 <= view.availSpace

\* C4: after every viewport reconciliation, 0 <= first <= last < len(available)
\* when the available sequence is non-empty, and first = last = 0 when it is empty
C4_BoundsInRange ==
    view.done =>
        IF view.size > 0
        THEN 0 <= view.first /\ view.first <= view.last /\ view.last < view.size
        ELSE view.first = 0 /\ view.last = 0

\* The step is Update with a key message for key k
KeyEvent(k) == op'.name = "Update" /\ op'.key = k

\* C5: a filter-activate event moves the engine to Filtering only if filtering
\* is enabled and the master sequence is non-empty at that moment
C5_ActivateNeedsItems ==
    [][(KeyEvent("ctrl+f") /\ m.filterState # Filtering
            /\ m'.filterState = Filtering)
        => (m.filteringEnabled /\ len(m.items) > 0)]_vars

C7_NoEmptyFilterApplied ==
    ~(m.filterState = FilterApplied /\ m.filteredItems = <<>>)

\* C8, as claimed: the filtered sequence is non-empty only while the filter
\* state is Filtering or FilterApplied, also when a ranking result arrives late
C8_FilteredOnlyWhileFiltering ==
    m.filterState = Unfiltered => m.filteredItems = <<>>

\* C8, amended: every step that moves the state to Unfiltered (reset, cancel,
\* clear, auto-revert) leaves the filtered sequence empty, and while the state
\* stays Unfiltered only the delivery of a ranking result changes the filtered
\* sequence
C8_FilteredCleared ==
    [][/\ (m.filterState # Unfiltered /\ m'.filterState = Unfiltered)
            => m'.filteredItems = <<>>
       /\ (m.filterState = Unfiltered /\ m'.filterState = Unfiltered
            /\ m'.filteredItems # m.filteredItems)
            => op'.name = "FilterMatchesMsg"]_vars

\* A ranking result was delivered late, in state Unfiltered
C8_Witness ==
    /\ op.name = "FilterMatchesMsg"
    /\ m.filterState = Unfiltered
    /\ m.filteredItems # <<>>

\* C9: every master-sequence mutation made while Filtering or FilterApplied
\* dispatches a ranking request over the mutated master sequence; made while
\* Unfiltered it dispatches none
C9_MutationDispatches ==
    [][(/\ panic' = ""
        /\ \/ op'.name \in {"SetItems", "SetItem", "InsertItem"}
           \/ op'.name = "RemoveItem" /\ len(m'.items) < len(m.items))
        => IF m.filterState # Unfiltered
           THEN /\ Len(cmds') = Len(cmds) + 1
                /\ CmdItems(cmds'[Len(cmds')], m'.items) = m'.items.elems
           ELSE Len(cmds') = Len(cmds)]_vars

\* C10, as claimed: while Filtering or FilterApplied, InsertItem, RemoveItem,
\* MoveItemUp and MoveItemDown leave the master sequence unchanged, and the
\* moves leave the selected index unchanged
C10_NoMutationWhileFiltering ==
    [][(/\ m.filterState # Unfiltered
        /\ panic' = ""
        /\ op'.name \in {"InsertItem", "RemoveItem", "MoveItemUp", "MoveItemDown"})
        => /\ m'.items.elems = m.items.elems
           /\ op'.name \in {"MoveItemUp", "MoveItemDown"} => m'.index = m.index]_vars

\* C10, amended: while Filtering or FilterApplied, MoveItemUp and MoveItemDown
\* leave the master sequence and the selected index unchanged; InsertItem,
\* RemoveItem with an index below the length and SetItem change the master
\* sequence in those states too
C10_FilteringFrame ==
    [][(m.filterState # Unfiltered /\ panic' = "") =>
        /\ op'.name \in {"MoveItemUp", "MoveItemDown"}
              => (m'.items = m.items /\ m'.index = m.index)
        /\ op'.name = "InsertItem" => len(m'.items) = len(m.items) + 1
        /\ (op'.name = "RemoveItem" /\ op'.index < len(m.items))
              => len(m'.items) = len(m.items) - 1
        /\ op'.name = "SetItem"
              => \E item \in ItemSet :
                    m'.items.elems = [m.items.elems EXCEPT ![op'.index + 1] = item]
       ]_vars

\* MoveItemUp was called on the second of two different items while a filter
\* is being edited or applied
C10_Witness ==
    /\ op.name = "MoveItemUp" /\ op.index = 1
    /\ m.filterState # Unfiltered
    /\ len(m.items) = 2
    /\ m.items.elems[1] # m.items.elems[2]

\* The step is Update with a FilterMatchesMsg: result j of those in flight
Delivered(j) ==
    /\ op'.name = "FilterMatchesMsg"
    /\ j \in 1..Len(msgs)
    /\ msgs' = RemoveAt(msgs, j)

\* C11: processing a ranking result in any filter state sets the filtered
\* sequence to exactly the delivered list and leaves the filter state, the
\* query text, the master sequence and the selected index unchanged
C11_ResultReplacesFiltered ==
    [][op'.name = "FilterMatchesMsg" =>
        \E j \in 1..Len(msgs) :
            /\ Delivered(j)
            /\ m'.filteredItems = msgs[j]
            /\ m'.filterState = m.filterState
            /\ m'.FilterInput = m.FilterInput
            /\ m'.items = m.items
            /\ m'.index = m.index]_vars

\* A ranking result that leaves out an item was delivered after the filter
\* had been applied
C11_Witness ==
    /\ op.name = "FilterMatchesMsg"
    /\ m.filterState = FilterApplied
    /\ m.filteredItems # <<>>
    /\ Len(m.filteredItems) < len(m.items)

\* The ranking of the master sequence of mm for query q
RankingFor(mm, q) ==
    filterItemsRun(filterItems([mm EXCEPT !.FilterInput = q]), mm.items)

\* C12: ranking results are applied in arrival order, not issue order: any
\* result in flight may be the next one delivered, and the one delivered
\* becomes the filtered sequence also when it is not the ranking for the query
\* now in the filter input, the query staying as it is
C12_LastWriteWins ==
    [][op'.name = "FilterMatchesMsg" =>
        \E j \in 1..Len(msgs) :
            /\ Delivered(j)
            /\ m'.filteredItems = msgs[j]
            /\ m'.FilterInput = m.FilterInput
            /\ msgs[j] # RankingFor(m, m.FilterInput)
                  => m'.filteredItems # RankingFor(m', m'.FilterInput)]_vars

\* Requests for the empty query and then for "b" were in flight together and
\* the result for the empty query arrived last: the query is "b", the filtered
\* sequence is the whole master sequence with an item that does not match "b",
\* and nothing is pending
C12_Witness ==
    /\ op.name = "FilterMatchesMsg"
    /\ m.filterState = Filtering
    /\ m.FilterInput = <<"b">>
    /\ m.filteredItems = RankingFor(m, <<>>)
    /\ m.filteredItems # RankingFor(m, <<"b">>)
    /\ cmds = <<>> /\ msgs = <<>>

\* C13: InsertItem(index, item) on a master sequence of length n never fails
\* and yields a sequence of length n + 1 with the item at position 0 if
\* index < 0, n if index >= n and index otherwise, the other items keeping
\* their relative order
C13_InsertClamps ==
    [][op'.name = "InsertItem" =>
        LET n == len(m.items)
            p == IF op'.index < 0 THEN 0
                 ELSE IF op'.index >= n THEN n ELSE op'.index
        IN  /\ panic' = ""
            /\ len(m'.items) = n + 1
            /\ m'.items.elems[p + 1] = op'.item
            /\ RemoveAt(m'.items.elems, p + 1) = m.items.elems]_vars

\* InsertItem with an index beyond the end has put the item last, behind a
\* different item
C13_Witness ==
    /\ op.name = "InsertItem"
    /\ panic = ""
    /\ len(m.items) = 2
    /\ op.index > len(m.items)
    /\ m.items.elems[2] = op.item
    /\ m.items.elems[1] # op.item

\* C14: RemoveItem(index) with index negative or >= len(master) is a no-op that
\* does not fail, also on an empty store; with 0 <= index < len(master) it
\* removes exactly the item at index and shifts the suffix left
C14_RemoveOutOfBoundsNoop ==
    [][op'.name = "RemoveItem" =>
        /\ panic' = ""
        /\ m'.items.elems =
              IF 0 <= op'.index /\ op'.index < len(m.items)
              THEN RemoveAt(m.items.elems, op'.index + 1)
              ELSE m.items.elems]_vars

\* C15: while Unfiltered, RemoveItem(i) with 0 <= i < len(s) followed by
\* InsertItem(i, s[i]) gives back the contents of the master sequence s, also
\* for i = len(s) - 1; with i >= len(s) the removal changes nothing and the
\* insertion that follows does not give back s
C15_RemoveInsertRoundTrip ==
    [][(op'.name = "RemoveItem" /\ panic' = "" /\ m.filterState = Unfiltered) =>
        LET i == op'.index
            s == m.items.elems
        IN  IF i < len(m.items)
            THEN InsertItem(m', i, s[i + 1]).m.items.elems = s
            ELSE /\ m'.items = m.items
                 /\ \A x \in ItemSet : InsertItem(m', i, x).m.items.elems # s]_vars

\* RemoveItem has removed the last of two items, leaving its cell free
C15_Witness ==
    /\ op.name = "RemoveItem"
    /\ panic = ""
    /\ m.filterState = Unfiltered
    /\ len(m.items) = 1
    /\ op.index = len(m.items)
    /\ m.items.cap > len(m.items)

\* The number of cells of seq that hold x
Count(seq, x) == Cardinality({k \in 1..Len(seq) : seq[k] = x})

\* C16: while Unfiltered, MoveItemUp(index) and MoveItemDown(index) never
\* fail, for any index and any store; they swap the positions index and
\* index -/+ 1 clamped into [0, len(master) - 1], leave an empty store as it
\* is, and the result is a permutation of the master sequence
C16_MoveNeverFails ==
    [][(op'.name \in {"MoveItemUp", "MoveItemDown"}
            /\ m.filterState = Unfiltered) =>
        LET s == m.items.elems
            n == Len(s)
            other == IF op'.name = "MoveItemUp"
                     THEN op'.index - 1 ELSE op'.index + 1
            a == setInBounds(op'.index, 0, n - 1) + 1
            b == setInBounds(other, 0, n - 1) + 1
        IN  /\ panic' = ""
            /\ \A x \in ItemSet : Count(m'.items.elems, x) = Count(s, x)
            /\ IF n = 0 THEN m'.items = m.items
               ELSE m'.items.elems = [s EXCEPT ![a] = s[b], ![b] = s[a]]]_vars

\* C17: SetItem(index, item) with index outside [0, len(master) - 1] fails with
\* an index-out-of-range panic, changes no state and dispatches no request;
\* with a valid index it replaces exactly that position, in every filter state
C17_SetItem ==
    [][op'.name = "SetItem" =>
        IF op'.index < 0 \/ op'.index > len(m.items) - 1
        THEN /\ panic' = "index out of range"
             /\ m' = m /\ cmds' = cmds /\ msgs' = msgs
        ELSE /\ panic' = ""
             /\ m'.items.elems =
                   [m.items.elems EXCEPT ![op'.index + 1] = op'.item]
             /\ m'.filterState = m.filterState]_vars

\* SetItem was called with the index just past the end while a filter is
\* applied, and failed
C17_Witness ==
    /\ op.name = "SetItem"
    /\ panic = "index out of range"
    /\ m.filterState = FilterApplied
    /\ len(m.items) > 0
    /\ op.index = len(m.items)

\* C18: Select(index) sets the selected index to -1 when the available
\* sequence is empty, to 0 when index < 0, to size - 1 when index >= size and
\* to index otherwise; CursorUp, CursorDown and ResetSelected are Select of
\* current - 1, current + 1 and 0, so after any of them the selection is
\* within [0, size - 1] when size > 0, whatever it was before
C18_SelectClamps ==
    [][op'.name \in {"Select", "CursorUp", "CursorDown", "ResetSelected"} =>
        LET target == CASE op'.name = "Select" -> op'.index
                        [] op'.name = "CursorUp" -> m.index - 1
                        [] op'.name = "CursorDown" -> m.index + 1
                        [] op'.name = "ResetSelected" -> 0
        IN  /\ m'.index = IF size = 0 THEN -1
                          ELSE IF target < 0 THEN 0
                          ELSE IF target >= size THEN size - 1
                          ELSE target
            /\ size > 0 => (0 <= m'.index /\ m'.index <= size - 1)
            /\ [m' EXCEPT !.index = m.index] = m]_vars

\* Select with an index past the end of the filtered sequence has selected its
\* last item
C18_Witness ==
    /\ op.name = "Select"
    /\ m.filterState = FilterApplied
    /\ size > 0
    /\ op.index >= size
    /\ m.index = size - 1

\* C19: while Filtering, the cursor-up, cursor-down, jump-to-start,
\* jump-to-end, move-up, move-down and filter-activate keys change neither the
\* selected index nor the master sequence nor the filter state
C19_FilteringIgnoresBrowseKeys ==
    [][(/\ m.filterState = Filtering
        /\ op'.name = "Update"
        /\ op'.key \in {BindingKey(b) : b \in
                {"CursorUp", "CursorDown", "GoToStart", "GoToEnd",
                 "MoveUp", "MoveDown", "Filter"}})
        => /\ panic' = ""
           /\ m'.index = m.index
           /\ m'.items = m.items
           /\ m'.filterState = Filtering]_vars

\* The cursor-down key was pressed while Filtering, with the first of at least
\* two listed items selected
C19_Witness ==
    /\ op.name = "Update" /\ op.key = "down"
    /\ panic = ""
    /\ m.filterState = Filtering
    /\ Len(m.filteredItems) >= 2
    /\ m.index = 0

\* C20: a filterItems command ranks the master sequence as it was when the
\* command was dispatched: the items it will rank are the master sequence at
\* dispatch, no later operation changes them, and the command does not fail
C20_RequestKeepsSnapshot ==
    [][IF op'.name = "filterItems"
       THEN panic' = ""
       ELSE panic' = "" =>
              /\ Len(cmds') >= Len(cmds)
              /\ \A k \in 1..Len(cmds) :
                    CmdItems(cmds'[k], m'.items) = CmdItems(cmds[k], m.items)
              /\ \A k \in Len(cmds) + 1..Len(cmds') :
                    CmdItems(cmds'[k], m'.items) = m'.items.elems]_vars

\* C21: NewStatusMessage cancels and replaces the timer scheduled before: the
\* only status-timeout event processed is the one of the timer started for the
\* message now set, and a status message stays displayed until that event, a
\* filter activate or a filter accept hides it
C21_TimerReplaced ==
    [][/\ op'.name = "statusMessageTimeoutMsg"
            => op'.timer = m.statusMessageTimer
       /\ (m.statusMessage # "" /\ m'.statusMessage = "")
            => \/ /\ op'.name = "statusMessageTimeoutMsg"
                  /\ op'.timer = m.statusMessageTimer
               \/ KeyEvent("ctrl+f")
               \/ KeyEvent("enter")]_vars

\* C22: a permitted filter-activate event sets the state to Filtering and the
\* selected index to 0; with an empty query it seeds the filtered sequence
\* with every master item in master order and no matched positions; from
\* FilterApplied it keeps the query and the filtered sequence
C22_Activate ==
    [][(KeyEvent("ctrl+f") /\ m.filterState # Filtering /\ m.KeyMap["Filter"]) =>
        /\ m'.filterState = Filtering
        /\ m'.index = 0
        /\ m.FilterInput = <<>> =>
              m'.filteredItems =
                 [k \in 1..len(m.items) |->
                    [item |-> m.items.elems[k], matches |-> <<>>]]
        /\ m.filterState = FilterApplied =>
              /\ m.FilterInput # <<>>
              /\ m'.FilterInput = m.FilterInput
              /\ m'.filteredItems = m.filteredItems]_vars

\* C23: a cancel event in Filtering and a clear-filter event in FilterApplied
\* move the state to Unfiltered with empty query and empty filtered sequence,
\* leave the master sequence unchanged and leave the selected index within
\* [0, len(master) - 1] when the master sequence is non-empty
C23_CancelAndClear ==
    [][(KeyEvent("esc") /\ m.filterState # Unfiltered) =>
        /\ m'.filterState = Unfiltered
        /\ m'.FilterInput = <<>>
        /\ m'.filteredItems = <<>>
        /\ m'.items = m.items
        /\ len(m'.items) > 0 =>
              (0 <= m'.index /\ m'.index <= len(m'.items) - 1)]_vars

\* The last index the window would show without scrolling, for the window
\* start the Model holds and the capacity cap
currentLastOf(mm, cap) ==
    min(Len(AvailableItems(mm)), mm.firstItemIndexInView + cap) - 1

\* C24: when the selected index is greater than currentLast =
\* min(len(available), previousFirst + capacity) - 1, reconciliation scrolls
\* down to first = max(0, selection - capacity + 1) and last = selection
C24_ScrollDown ==
    [][(op'.name = "View" /\ m.index >= 0
            /\ m.index > currentLastOf(m, view'.availSpace)) =>
        /\ view'.first = max(0, m.index - view'.availSpace + 1)
        /\ view'.last = m.index]_vars

\* Five items, capacity 2, the selection moved down to index 4: the render
\* shows the window [3, 4]
C24_Witness ==
    /\ op.name = "View"
    /\ view.done
    /\ view.size = 5
    /\ view.availSpace = 2
    /\ m.index = 4
    /\ view.first = 3 /\ view.last = 4

\* C25: reconciliation is incremental across render passes: the first index a
\* render pass computes is the previousFirst the Model holds for the next
\* one, and a render at which the selection lies within
\* [previousFirst, min(len(available), previousFirst + capacity) - 1] does
\* not scroll
C25_RenderIsIncremental ==
    [][op'.name = "View" =>
        /\ m'.firstItemIndexInView = view'.first
        /\ (/\ m.firstItemIndexInView <= m.index
            /\ m.index <= currentLastOf(m, view'.availSpace))
              => view'.first = m.firstItemIndexInView]_vars

C27_ForwardedOnce ==
    [][op'.name = "Update" =>
        UpdateForwards(m, op'.key) =
            IF m.filterState = Filtering THEN <<>> ELSE <<op'.key>>]_vars

\* The items of a sequence
ItemsIn(seq) == {seq[k] : k \in 1..Len(seq)}

\* C28: after RemoveItem(i) with 0 <= i < len(master) while the filter state
\* is Filtering or FilterApplied and no ranking result is pending, the item
\* removed from the master sequence no longer appears in the available
\* sequence and every item of the filtered sequence is still an item of the
\* master sequence; if the filtered sequence becomes empty the state becomes
\* Unfiltered.  Stated for calls made when every item of the filtered
\* sequence is an item of the master sequence.
C28_RemoveWhileFiltered ==
    [][(/\ op'.name = "RemoveItem" /\ panic' = ""
        /\ 0 <= op'.index /\ op'.index < len(m.items)
        /\ m.filterState # Unfiltered
        /\ cmds = <<>> /\ msgs = <<>>
        /\ ItemsIn(FilteredAsItems(m.filteredItems)) \subseteq ItemsIn(m.items.elems)) =>
        /\ m.items.elems[op'.index + 1] \notin ItemsIn(m'.items.elems)
              => m.items.elems[op'.index + 1] \notin ItemsIn(AvailableItems(m'))
        /\ ItemsIn(FilteredAsItems(m'.filteredItems)) \subseteq ItemsIn(m'.items.elems)
        /\ m'.filteredItems = <<>> => m'.filterState = Unfiltered]_vars

\* The master sequence of mm with the items at the 0-based indices i and j
\* exchanged
Swapped(mm, i, j) ==
    [mm.items.elems EXCEPT ![i + 1] = mm.items.elems[j + 1],
                           ![j + 1] = mm.items.elems[i + 1]]

\* C29: while Unfiltered with a selected index in [0, len(master) - 1],
\* MoveItemUp(Index()) and MoveItemDown(Index()) keep the selection on the
\* same item: SelectedItem() is identical before and after, the master
\* sequence changes at most by swapping the selected item with its neighbour,
\* and at the first/last position nothing changes
C29_MoveKeepsSelection ==
    [][\A b \in {"MoveUp", "MoveDown"} :
          (/\ KeyEvent(BindingKey(b)) /\ Matches(m, BindingKey(b), b)
           /\ m.filterState = Unfiltered
           /\ 0 <= Index(m) /\ Index(m) <= len(m.items) - 1) =>
             LET i == Index(m)
                 j == IF b = "MoveUp" THEN i - 1 ELSE i + 1
             IN  /\ panic' = ""
                 /\ SelectedItem(m') = SelectedItem(m)
                 /\ IF j < 0 \/ j > len(m.items) - 1
                    THEN m' = m
                    ELSE /\ m'.items.elems = Swapped(m, i, j)
                         /\ Index(m') = j]_vars

\* The third of three items has been moved up from the last position to the
\* middle one and is still selected
C29_Witness ==
    /\ op.name = "Update" /\ op.key = BindingKey("MoveUp")
    /\ m.items.elems = <<"A", "C", "B">>
    /\ Index(m) = 1
    /\ SelectedItem(m) = "C"

====
